---- MODULE Spec2Model ----
(***************************************************************************)
(* Model of src/hal_adc.c: the ADC sample application.                     *)
(*                                                                         *)
(*   - convert_adc_raw_to_mvolt (lines 284-307), with C's fixed-width      *)
(*     arithmetic: INT16 raw sample, INT32 working value, UINT32 scale     *)
(*     factor and result.  32-bit words are held as the signed integer     *)
(*     with the same bit pattern (a UINT32 of 2^32-1 is -1), and every     *)
(*     operation is computed on 16-bit limbs so that no intermediate       *)
(*     leaves the signed 32-bit range.                                     *)
(*   - sample_adc_app_management_cback, seconds_app_timer_cb and           *)
(*     adc_readings (lines 164-269): the two-state application.            *)
(*                                                                         *)
(* Spec    : the conversion routine applied to inputs drawn by Init.       *)
(* AppSpec : the management callback and the periodic timer callback.      *)
(***************************************************************************)
EXTENDS Integers, Sequences, FiniteSets, TLC

VARIABLES
    pc,               \* position of the conversion call: "call", "done" ("idle" under AppSpec)
    raw_val,          \* INT16 argument of convert_adc_raw_to_mvolt
    gnd_reading,      \* wiced_hal_adc_get_ground_offset()
    ref_reading,      \* wiced_hal_adc_get_reference_reading()
    ref_mvolts,       \* wiced_hal_adc_get_reference_micro_volts(), UINT32 bit pattern
    ub,               \* undefined operation executed by the call, "none" if none
    divided,          \* whether the call executed the division of line 304
    fault,            \* whether the call ended in a hardware fault
    ret,              \* returned UINT32 (bit pattern)
    adc_initialized,  \* wiced_hal_adc_init() has been called
    seconds_timer,    \* state of the wiced_timer_t seconds_timer
    hal_cal,          \* calibration held by the ADC HAL
    last_call,        \* which callback ran last: "none" | "mgmt" | "timer"
    event,            \* event passed to the last management callback
    result,           \* value returned by the last management callback
    trace,            \* lines printed by the last timer callback, one per channel
    read_uninit,      \* history: an ADC read happened before wiced_hal_adc_init
    full_adc_api,     \* build: DEVICE_SUPPORTS_FULL_ADC_API
    has_vddio         \* build: ADC_INPUT_VDDIO is defined

convVars == <<pc, raw_val, gnd_reading, ref_reading, ref_mvolts, ub, divided, fault, ret>>
appVars == <<adc_initialized, seconds_timer, hal_cal, last_call, event, result,
             trace, read_uninit, full_adc_api, has_vddio>>
vars == <<pc, raw_val, gnd_reading, ref_reading, ref_mvolts, ub, divided, fault, ret,
          adc_initialized, seconds_timer, hal_cal, last_call, event, result,
          trace, read_uninit, full_adc_api, has_vddio>>

---------------------------------------------------------------------------
(* Fixed-width words *)

Int32Max == 2147483647
Int32Min == -Int32Max - 1
Int16Max == 32767
Int16Min == -Int16Max - 1
Two16 == 65536

\* The 16-bit limbs of a 32-bit word.
Hi16(x) == (x \div Two16) % Two16
Lo16(x) == x % Two16

\* The 32-bit word with limbs hi, lo, as the signed integer of that bit pattern.
Word32(hi, lo) ==
    IF hi >= Two16 \div 2 THEN (hi - Two16) * Two16 + lo ELSE hi * Two16 + lo

\* a * b for 16-bit a, b, as the pair <<high limb, low limb>>.
Mul16(a, b) ==
    LET t1 == a * (b \div 256)
        t0 == a * (b % 256)
        s  == (t1 % 256) * 256 + t0
    IN  <<(t1 \div 256) + (s \div Two16), s % Two16>>

\* a * b modulo 2^32 on bit patterns: C's unsigned multiplication.
Mul32(a, b) ==
    LET ll == Mul16(Lo16(a), Lo16(b))
        hl == Mul16(Hi16(a), Lo16(b))
        lh == Mul16(Lo16(a), Hi16(b))
    IN  Word32((ll[1] + hl[2] + lh[2]) % Two16, ll[2])

\* Whether the signed addition a + b leaves the INT32 range.
AddOverflows(a, b) ==
    \/ b > 0 /\ a > Int32Max - b
    \/ b < 0 /\ a < Int32Min - b

\* C's signed division (truncation toward zero) for a positive divisor n.
TruncDivPos(a, n) ==
    IF a >= 0 THEN a \div n
    ELSE (a \div n) + (IF a % n = 0 THEN 0 ELSE 1)

\* C's signed division a / b, b # 0, not INT32_MIN / -1.
TruncDiv(a, b) ==
    IF b > 0 THEN TruncDivPos(a, b) ELSE -TruncDivPos(a, -b)

\* Conversion of a UINT32 to INT16 (the store into conv_val): low 16 bits.
ToInt16(x) == IF Lo16(x) > Int16Max THEN Lo16(x) - Two16 ELSE Lo16(x)

---------------------------------------------------------------------------
(* convert_adc_raw_to_mvolt, line by line *)

\* Mutant: the zero-sample shortcut is missing.
ZeroSampleNever(mvolt) == FALSE

\* Line 291: the zero-sample test.
ZeroSample(mvolt) == mvolt = 0

\* Mutant: no clamping at all.
ClampNone(mvolt, gnd) == mvolt

\* Mutant: a sub-ground sample is clamped to zero instead of the ground reading.
ClampToZero(mvolt, gnd) == IF mvolt < gnd THEN 0 ELSE mvolt

\* Mutant: the comparison of line 296 is reversed.
ClampInverted(mvolt, gnd) == IF mvolt > gnd THEN gnd ELSE mvolt

\* Lines 296-299: a sample below the ground reading is raised to it.
Clamp(mvolt, gnd) == IF mvolt < gnd THEN gnd ELSE mvolt

\* Mutant: the multiplication is dropped.
ScaleNoop(mvolt, mul) == mvolt

\* Line 302: mvolt *= ref_mvolts, computed in UINT32 and stored back in INT32.
Scale(mvolt, mul) == Mul32(mvolt, mul)

\* Mutant: the half-span is computed by C's truncating division, / 2.
RoundingBiasTrunc(ref, gnd) == TruncDiv(ref - gnd, 2)

\* Mutant: no rounding term.
RoundingBiasNone(ref, gnd) == 0

\* Line 303: (ref_reading - gnd_reading) >> 1, an arithmetic shift (floor).
RoundingBias(ref, gnd) == (ref - gnd) \div 2

\* Mutant: the divisor adds the readings.
SpanSum(ref, gnd) == ref + gnd

\* Line 304: the divisor ref_reading - gnd_reading.
Span(ref, gnd) == ref - gnd

\* The call's outcome: the undefined operation it executes (if any), whether
\* the division ran, and the value returned when nothing undefined happened.
convert_adc_raw_to_mvolt(raw, gnd, ref, mul) ==
    IF ZeroSample(raw)
    THEN [ub |-> "none", divided |-> FALSE, val |-> 0]
    ELSE LET delta  == Clamp(raw, gnd) - gnd
             scaled == Scale(delta, mul)
             bias   == RoundingBias(ref, gnd)
             span   == Span(ref, gnd)
         IN  IF AddOverflows(scaled, bias)
             THEN [ub |-> "add_overflow", divided |-> FALSE, val |-> 0]
             ELSE IF span = 0
             THEN [ub |-> "div_by_zero", divided |-> TRUE, val |-> 0]
             ELSE IF span = -1 /\ scaled + bias = Int32Min
             THEN [ub |-> "div_overflow", divided |-> TRUE, val |-> 0]
             ELSE [ub |-> "none", divided |-> TRUE,
                   val |-> TruncDiv(scaled + bias, span)]

\* What a call that executed an undefined operation may return, if it returns.
UBWords == {0, 1, -1, Int32Min, Int32Max}

---------------------------------------------------------------------------
(* Inputs of the conversion.  The raw sample is an INT16 (line 284).  The     *)
(* ground and reference readings are raw readings of the same ADC, drawn    *)
(* from the INT16 range and widened to INT32 (lines 287-288), so that        *)
(* ref_reading - gnd_reading and mvolt - gnd_reading stay within INT32.      *)
(* The scale factor is any UINT32 (line 289), given as its bit pattern:      *)
(* Word32(32768, 1) is 2^31 + 1 and -1 is 2^32 - 1.                          *)

Near == 3
NearZero == (-Near)..Near

RawSamples == NearZero \cup {Int16Min, Int16Max, 50, 600}
GroundOffsets == NearZero \cup {100, Int16Min, Int16Max}
ReferenceReadings == NearZero \cup {1100, Int16Max, Int16Min}
ReferenceMicroVolts ==
    (0..Near) \cup {1000, 1000000, Two16, Int32Max, Word32(32768, 1), -1}

---------------------------------------------------------------------------
(* Application state used by AppSpec; constant under Spec *)

NoCal == [gnd |-> 0, ref |-> 0, mul |-> 0]

AppIdle ==
    /\ adc_initialized = FALSE
    /\ seconds_timer = [state |-> "uninit", timeout |-> 0]
    /\ hal_cal = NoCal
    /\ last_call = "none"
    /\ event = "none"
    /\ result = "none"
    /\ trace = <<>>
    /\ read_uninit = FALSE
    /\ full_adc_api = TRUE
    /\ has_vddio = TRUE

---------------------------------------------------------------------------
(* Spec: the conversion applied to every input *)

Init ==
    /\ pc = "call"
    /\ raw_val \in RawSamples
    /\ gnd_reading \in GroundOffsets
    /\ ref_reading \in ReferenceReadings
    /\ ref_mvolts \in ReferenceMicroVolts
    /\ ub = "none"
    /\ divided = FALSE
    /\ fault = FALSE
    /\ ret = 0
    /\ AppIdle

Convert ==
    /\ pc = "call"
    /\ LET out == convert_adc_raw_to_mvolt(raw_val, gnd_reading, ref_reading, ref_mvolts)
       IN  /\ ub' = out.ub
           /\ divided' = out.divided
           /\ IF out.ub = "none"
              THEN fault' = FALSE /\ ret' = out.val
              ELSE \/ fault' = TRUE /\ ret' = 0
                   \/ fault' = FALSE /\ ret' \in UBWords
    /\ pc' = "done"
    /\ UNCHANGED <<raw_val, gnd_reading, ref_reading, ref_mvolts>>
    /\ UNCHANGED appVars

Next == Convert

Spec == Init /\ [][Next]_vars

---------------------------------------------------------------------------
(* Properties of the conversion, checked under Spec *)

Done == pc = "done"

\* The ideal (unbounded) quantities of the calibration formula.
Delta(raw, gnd) == (IF raw < gnd THEN gnd ELSE raw) - gnd
Floor2(n) == n \div 2

\* The scaled sample plus its rounding term stays within INT32:
\* Delta * mul + max(floor(span / 2), 0) <= 2^31 - 1, with mul < 2^31.
InRange(raw, gnd, ref, mul) ==
    LET d == Delta(raw, gnd)
        h == Floor2(ref - gnd)
    IN  /\ mul >= 0
        /\ d = 0 \/ mul <= (Int32Max - (IF h > 0 THEN h ELSE 0)) \div d

\* Unsigned comparison of two UINT32 bit patterns.
ULe(a, b) == IF (a >= 0) = (b >= 0) THEN a <= b ELSE a >= 0

\* Value returned by a call that executes nothing undefined.
Conv(raw, gnd, ref, mul) == convert_adc_raw_to_mvolt(raw, gnd, ref, mul).val
ConvDefined(raw, gnd, ref, mul) == convert_adc_raw_to_mvolt(raw, gnd, ref, mul).ub = "none"

\* C1: a zero raw sample returns 0 for every calibration, reference_reading =
\* ground_offset included, and the division is not executed.
C1_ZeroSampleReturnsZero ==
    (Done /\ raw_val = 0) =>
        (ret = 0 /\ ~divided /\ ub = "none" /\ ~fault)

C1_Witness ==
    Done /\ raw_val = 0 /\ ref_reading = gnd_reading /\ gnd_reading # 0 /\ ret = 0

\* C2 as stated: for raw_sample < ground_offset and reference_reading #
\* ground_offset, convert(raw, g, r, u) = convert(g, g, r, u).
C2_ClampingAsStated ==
    (Done /\ raw_val < gnd_reading /\ ref_reading # gnd_reading) =>
        ret = Conv(gnd_reading, gnd_reading, ref_reading, ref_mvolts)

\* C2 amended: the same, provided the span reference_reading - ground_offset
\* is not -1 (with span -1 the computed path returns 1, the zero shortcut 0).
C2_Clamping ==
    (Done /\ raw_val < gnd_reading /\ ref_reading # gnd_reading
          /\ ref_reading - gnd_reading # -1) =>
        /\ ub = "none"
        /\ ret = Conv(gnd_reading, gnd_reading, ref_reading, ref_mvolts)

C2_Witness ==
    /\ Done /\ raw_val < gnd_reading /\ raw_val # 0 /\ divided
    /\ gnd_reading = 0 /\ ref_reading < gnd_reading - 1
    /\ ret = Conv(gnd_reading, gnd_reading, ref_reading, ref_mvolts)

\* C3 as stated: for reference_reading > ground_offset, ground_offset of any
\* sign, and raw samples a <= b, convert(a) <= convert(b) (evaluated where the
\* scaled value of b stays within INT32).
C3_MonotoneAsStated ==
    (Done /\ ref_reading > gnd_reading) =>
        \A b \in RawSamples :
            (raw_val <= b /\ InRange(b, gnd_reading, ref_reading, ref_mvolts)) =>
                ULe(ret, Conv(b, gnd_reading, ref_reading, ref_mvolts))

\* C3 amended: for reference_reading > ground_offset and raw samples a <= b
\* with b # 0 or ground_offset >= 0, and the scaled value of b within INT32,
\* convert(a) <= convert(b).
C3_Monotone ==
    (Done /\ ref_reading > gnd_reading) =>
        \A b \in RawSamples :
            (/\ raw_val <= b
             /\ b # 0 \/ gnd_reading >= 0
             /\ InRange(b, gnd_reading, ref_reading, ref_mvolts)) =>
                /\ ub = "none"
                /\ ConvDefined(b, gnd_reading, ref_reading, ref_mvolts)
                /\ ULe(ret, Conv(b, gnd_reading, ref_reading, ref_mvolts))

C3_Witness ==
    /\ Done /\ ref_reading > gnd_reading /\ gnd_reading < 0
    /\ raw_val < 0 /\ ret > 0
    /\ \E b \in RawSamples :
          /\ raw_val < b /\ b # 0
          /\ InRange(b, gnd_reading, ref_reading, ref_mvolts)
          /\ Conv(b, gnd_reading, ref_reading, ref_mvolts) > ret

\* C4 as stated: for raw_sample # 0 and reference_reading # ground_offset the
\* result is ((max(raw, g) - g) * u + (r - g) / 2) / (r - g), both divisions
\* truncating toward zero (evaluated where the sum stays within INT32).
C4_FormulaAsStated ==
    (Done /\ raw_val # 0 /\ ref_reading # gnd_reading
          /\ InRange(raw_val, gnd_reading, ref_reading, ref_mvolts)) =>
        ret = TruncDiv(Delta(raw_val, gnd_reading) * ref_mvolts
                         + TruncDiv(ref_reading - gnd_reading, 2),
                       ref_reading - gnd_reading)

\* C4 amended: for raw_sample # 0, reference_reading # ground_offset and the
\* scaled value within INT32, the result is
\* ((max(raw, g) - g) * u + floor((r - g) / 2)) / (r - g): the half-span is
\* floored (an arithmetic shift), only the final division truncates.
C4_Formula ==
    (Done /\ raw_val # 0 /\ ref_reading # gnd_reading
          /\ InRange(raw_val, gnd_reading, ref_reading, ref_mvolts)) =>
        /\ ub = "none"
        /\ ret = TruncDiv(Delta(raw_val, gnd_reading) * ref_mvolts
                            + Floor2(ref_reading - gnd_reading),
                          ref_reading - gnd_reading)

C4_Witness ==
    /\ Done /\ raw_val = 600 /\ gnd_reading = 100 /\ ref_reading = 1100
    /\ ref_mvolts = 1000 /\ ret = 500

\* C5 as stated: whenever reference_reading = ground_offset the call ends in
\* a division by zero, for every raw sample, and the call executes no other
\* undefined operation (the latter evaluated where the scaled value stays
\* within INT32).
C5_DivByZeroAsStated ==
    Done =>
        /\ (ref_reading = gnd_reading) => ub = "div_by_zero"
        /\ InRange(raw_val, gnd_reading, ref_reading, ref_mvolts) =>
               ub \in {"none", "div_by_zero"}

\* C5 amended: the call divides by zero exactly when reference_reading =
\* ground_offset and raw_sample # 0; with raw_sample = 0 it returns 0
\* without dividing.  While the scaled value stays within INT32 the call
\* executes no other undefined operation, and it faults only on one.
C5_DivByZero ==
    Done =>
        /\ (ub = "div_by_zero") <=> (ref_reading = gnd_reading /\ raw_val # 0)
        /\ (ref_reading = gnd_reading /\ raw_val = 0) => (ret = 0 /\ ~divided /\ ~fault)
        /\ InRange(raw_val, gnd_reading, ref_reading, ref_mvolts) =>
               ub \in {"none", "div_by_zero"}
        /\ fault => ub # "none"

C5_Witness ==
    Done /\ ref_reading = gnd_reading /\ raw_val # 0 /\ ub = "div_by_zero" /\ fault

\* 48-bit naturals as three 16-bit limbs <<l2, l1, l0>>, for the ideal value
\* of products that do not fit 32 bits.
WideMul(a, m) ==
    LET lo == Mul16(Lo16(a), m)
        hi == Mul16(Hi16(a), m)
        t  == lo[1] + hi[2]
    IN  <<hi[1] + (t \div Two16), t % Two16, lo[2]>>

WideAdd(w, n) ==
    LET l0 == w[3] + n
        l1 == w[2] + (l0 \div Two16)
    IN  <<w[1] + (l1 \div Two16), l1 % Two16, l0 % Two16>>

WideLe(v, w) ==
    \/ v[1] < w[1]
    \/ v[1] = w[1] /\ v[2] < w[2]
    \/ v[1] = w[1] /\ v[2] = w[2] /\ v[3] <= w[3]

\* q is the integer nearest to x / s, exact halves rounded up (s > 0):
\* q * s <= x + floor(s / 2) <= q * s + s - 1, with x = d * mul unbounded.
NearestHalfUp(q, d, mul, s) ==
    LET x  == WideAdd(WideMul(mul, d), Floor2(s))
        qs == WideMul(q, s)
    IN  WideLe(qs, x) /\ WideLe(x, WideAdd(qs, s - 1))

\* C6 as stated: for reference_reading > ground_offset and raw_sample # 0 the
\* result is the integer nearest to (max(raw, g) - g) * u / (r - g), exact
\* halves rounded up, for every input.
C6_RoundHalfUpAsStated ==
    (Done /\ raw_val # 0 /\ ref_reading > gnd_reading) =>
        NearestHalfUp(ret, Delta(raw_val, gnd_reading), ref_mvolts,
                      ref_reading - gnd_reading)

\* C6 amended: the same, provided the scaled value plus the half-span stays
\* within INT32: (max(raw, g) - g) * u + floor((r - g) / 2) <= 2^31 - 1.
\* With x the scaled value and s the span, -s <= 2 * (x - ret * s) < s, that is
\* -floor(s / 2) <= x - ret * s <= floor((s - 1) / 2).
C6_RoundHalfUp ==
    (Done /\ raw_val # 0 /\ ref_reading > gnd_reading
          /\ InRange(raw_val, gnd_reading, ref_reading, ref_mvolts)) =>
        LET s == ref_reading - gnd_reading
            x == Delta(raw_val, gnd_reading) * ref_mvolts
        IN  /\ ub = "none"
            /\ ret >= 0 /\ ret <= Int32Max \div s
            /\ -(s \div 2) <= x - ret * s
            /\ x - ret * s <= (s - 1) \div 2

\* An exact half is rounded up, and so is a fraction above a half of an odd span.
C6_Witness ==
    /\ Done /\ raw_val # 0 /\ ref_reading > gnd_reading
    /\ InRange(raw_val, gnd_reading, ref_reading, ref_mvolts)
    /\ LET s == ref_reading - gnd_reading
           x == Delta(raw_val, gnd_reading) * ref_mvolts
       IN  /\ s % 2 = 0
           /\ ret > 0 /\ ret <= Int32Max \div s
           /\ 2 * (ret * s - x) = s

\* C7: for raw_sample < ground_offset and reference_reading > ground_offset
\* the result is 0.
C7_SubGroundIsZero ==
    (Done /\ raw_val < gnd_reading /\ ref_reading > gnd_reading) =>
        (ret = 0 /\ ub = "none" /\ ~fault)

C7_Witness ==
    /\ Done /\ raw_val < gnd_reading /\ raw_val # 0 /\ ref_reading > gnd_reading
    /\ ref_mvolts # 0 /\ divided /\ ret = 0

KMax == 3

\* k * mul is a UINT32 below 2^31.
Scalable(k, mul) == mul >= 0 /\ mul <= Int32Max \div k

\* C8 as stated: for reference_reading > ground_offset and every positive k,
\* convert(raw, g, r, k * u) = k * convert(raw, g, r, u) (evaluated where
\* the scaled value for k * u stays within INT32).
C8_LinearAsStated ==
    (Done /\ ref_reading > gnd_reading) =>
        \A k \in 1..KMax :
            (/\ Scalable(k, ref_mvolts)
             /\ InRange(raw_val, gnd_reading, ref_reading, k * ref_mvolts)) =>
                Conv(raw_val, gnd_reading, ref_reading, k * ref_mvolts) = k * ret

\* C8 amended: for reference_reading > ground_offset, positive k and the
\* scaled value for k * u within INT32, convert(raw, g, r, k * u) differs
\* from k * convert(raw, g, r, u) by at most k / 2, and equals it when
\* (max(raw, g) - g) * u is a multiple of the span (or raw_sample = 0).
C8_Linear ==
    (Done /\ ref_reading > gnd_reading) =>
        \A k \in 1..KMax :
            (/\ Scalable(k, ref_mvolts)
             /\ InRange(raw_val, gnd_reading, ref_reading, k * ref_mvolts)) =>
                LET qk == Conv(raw_val, gnd_reading, ref_reading, k * ref_mvolts)
                    x  == Delta(raw_val, gnd_reading) * ref_mvolts
                    s  == ref_reading - gnd_reading
                IN  /\ ub = "none"
                    /\ ret >= 0 /\ ret <= Int32Max \div k /\ qk >= 0
                    /\ qk - k * ret <= k \div 2
                    /\ k * ret - qk <= k \div 2
                    /\ (raw_val = 0 \/ x % s = 0) => qk = k * ret

\* Rounding makes the scaled call differ from the multiple.
C8_Witness ==
    /\ Done /\ ref_reading > gnd_reading /\ raw_val # 0 /\ ret > 0
    /\ \E k \in 2..KMax :
          /\ Scalable(k, ref_mvolts)
          /\ InRange(raw_val, gnd_reading, ref_reading, k * ref_mvolts)
          /\ Conv(raw_val, gnd_reading, ref_reading, k * ref_mvolts) # k * ret

---------------------------------------------------------------------------
(* AppSpec: the management callback and the periodic timer callback *)

APP_TIMEOUT_IN_SECONDS == 5

\* Events the stack may deliver; all but BTM_ENABLED_EVT take the default branch.
Events == {"BTM_ENABLED_EVT", "BTM_DISABLED_EVT", "BTM_PAIRING_COMPLETE_EVT"}

TimerUninit == [state |-> "uninit", timeout |-> 0]
TimerRunning == [state |-> "running", timeout |-> APP_TIMEOUT_IN_SECONDS]

\* Calibrations the ADC HAL may hold once initialised (reference above ground).
HalCalibrations ==
    { [gnd |-> 0, ref |-> 1000, mul |-> 1000],
      [gnd |-> 100, ref |-> 1100, mul |-> 1000] }

\* What the ADC may return for one channel: wiced_hal_adc_read_voltage and
\* wiced_hal_adc_read_raw_sample (lines 248-253).
AdcReadings ==
    { [voltage |-> 0, raw |-> 50],
      [voltage |-> 500, raw |-> 600],
      [voltage |-> 0, raw |-> 0] }

\* Lines 213-218: the channels sampled by the timer callback, in order.
Channels ==
    <<"ADC_INPUT_P0", "ADC_INPUT_ADC_BGREF">>
        \o (IF has_vddio THEN <<"ADC_INPUT_VDDIO">> ELSE <<>>)
        \o <<"ADC_INPUT_VDD_CORE">>

\* Lines 235-269: one channel's readings as printed.  conv_val is an INT16
\* and exists only on devices with the full ADC API (it is printed as 0
\* otherwise).  With HalCalibrations and AdcReadings the conversion stays
\* within INT32 and executes nothing undefined.
adc_readings(channel, voltage_val, sign_raw_val) ==
    LET out == convert_adc_raw_to_mvolt(sign_raw_val, hal_cal.gnd, hal_cal.ref, hal_cal.mul)
    IN  [channel |-> channel,
         sign_raw_val |-> sign_raw_val,
         voltage_val |-> voltage_val,
         conv_val |-> IF full_adc_api /\ out.ub = "none"
                      THEN ToInt16(out.val) ELSE 0]

ConvIdle ==
    /\ pc = "idle"
    /\ raw_val = 0
    /\ gnd_reading = 0
    /\ ref_reading = 0
    /\ ref_mvolts = 0
    /\ ub = "none"
    /\ divided = FALSE
    /\ fault = FALSE
    /\ ret = 0

AppInit ==
    /\ ConvIdle
    /\ adc_initialized = FALSE
    /\ seconds_timer = TimerUninit
    /\ hal_cal = NoCal
    /\ last_call = "none"
    /\ event = "none"
    /\ result = "none"
    /\ trace = <<>>
    /\ read_uninit = FALSE
    /\ full_adc_api \in BOOLEAN
    /\ has_vddio \in BOOLEAN

\* Mutant: BTM_ENABLED_EVT starts the timer without initialising the ADC.
mgmt_cback_no_adc_init(ev) ==
    /\ last_call' = "mgmt"
    /\ event' = ev
    /\ result' = "WICED_SUCCESS"
    /\ IF ev = "BTM_ENABLED_EVT"
       THEN seconds_timer' = TimerRunning
       ELSE UNCHANGED seconds_timer
    /\ UNCHANGED <<adc_initialized, hal_cal>>
    /\ UNCHANGED <<trace, read_uninit, full_adc_api, has_vddio>>
    /\ UNCHANGED convVars

\* Mutant: the default branch stops the timer.
mgmt_cback_default_stops(ev) ==
    /\ last_call' = "mgmt"
    /\ event' = ev
    /\ result' = "WICED_SUCCESS"
    /\ IF ev = "BTM_ENABLED_EVT"
       THEN /\ adc_initialized' = TRUE
            /\ hal_cal' \in HalCalibrations
            /\ seconds_timer' = TimerRunning
       ELSE /\ seconds_timer' = TimerUninit
            /\ UNCHANGED <<adc_initialized, hal_cal>>
    /\ UNCHANGED <<trace, read_uninit, full_adc_api, has_vddio>>
    /\ UNCHANGED convVars

\* Lines 164-195: BTM_ENABLED_EVT initialises the ADC, then initialises and
\* starts the periodic timer; every other event only prints.  Returns
\* WICED_SUCCESS in all cases.
sample_adc_app_management_cback(ev) ==
    /\ last_call' = "mgmt"
    /\ event' = ev
    /\ result' = "WICED_SUCCESS"
    /\ IF ev = "BTM_ENABLED_EVT"
       THEN /\ adc_initialized' = TRUE
            /\ hal_cal' \in HalCalibrations
            /\ seconds_timer' = TimerRunning
       ELSE UNCHANGED <<adc_initialized, hal_cal, seconds_timer>>
    /\ UNCHANGED <<trace, read_uninit, full_adc_api, has_vddio>>
    /\ UNCHANGED convVars

\* Lines 208-220: fired by the running periodic timer; reads every channel.
seconds_app_timer_cb ==
    /\ seconds_timer.state = "running"
    /\ last_call' = "timer"
    /\ \E adc \in [1..Len(Channels) -> AdcReadings] :
          trace' = [i \in 1..Len(Channels) |->
                       adc_readings(Channels[i], adc[i].voltage, adc[i].raw)]
    /\ read_uninit' = (read_uninit \/ ~adc_initialized)
    /\ UNCHANGED <<adc_initialized, seconds_timer, hal_cal, event, result,
                   full_adc_api, has_vddio>>
    /\ UNCHANGED convVars

ManagementEvent == \E ev \in Events : sample_adc_app_management_cback(ev)

AppNext == ManagementEvent \/ seconds_app_timer_cb

AppSpec == AppInit /\ [][AppNext]_vars

\* C9: no ADC read happens before wiced_hal_adc_init: the timer callback runs
\* only with the ADC initialised, for any sequence of management events.
C9_NoReadBeforeInit ==
    /\ ~read_uninit
    /\ seconds_timer.state = "running" => adc_initialized
    /\ trace # <<>> => adc_initialized

C9_Witness ==
    /\ last_call = "timer" /\ Len(trace) = Len(Channels)
    /\ adc_initialized /\ ~read_uninit
    /\ \E i \in 1..Len(trace) : trace[i].sign_raw_val = 600

\* C10: only BTM_ENABLED_EVT changes the ADC-initialised state or the timer
\* state; every management callback returns WICED_SUCCESS; once the timer is
\* running no event and no timer callback stops it.
C10_Step ==
    /\ (adc_initialized' # adc_initialized \/ seconds_timer' # seconds_timer) =>
          (last_call' = "mgmt" /\ event' = "BTM_ENABLED_EVT"
              /\ adc_initialized' /\ seconds_timer'.state = "running")
    /\ (last_call' = "mgmt" /\ event' # "BTM_ENABLED_EVT") =>
          (adc_initialized' = adc_initialized /\ seconds_timer' = seconds_timer)
    /\ last_call' = "mgmt" => result' = "WICED_SUCCESS"
    /\ seconds_timer.state = "running" => seconds_timer'.state = "running"

====
